---- MODULE Spec2Model ----
(***************************************************************************)
(* A model of cmd/gardepro/gardepro.go: one invocation parses its flags,   *)
(* opens the log, extracts the creation time of the source (EXIF Date Time *)
(* for .jpg/.jpeg, moov/mvhd for .mp4), formats the target directory and   *)
(* path, ensures the year directory and copies the source unless the       *)
(* target already exists.  Strings are sequences of one-character strings, *)
(* the file system is a function from clean paths to entries, and the      *)
(* program is run up to MaxRuns times on the same arguments.               *)
(***************************************************************************)
EXTENDS Integers, Sequences, FiniteSets, TLC

VARIABLES
    fs,          \* the file system: clean path -> [kind, content]
    source,      \* flag -source
    targetFlag,  \* flag -target, as given on the command line
    console,     \* flag -console
    logFile,     \* flag -log
    localTimeZone, \* seconds east of UTC of time.Now().Location()
    pc,          \* position of main
    target,      \* main's target after strings.TrimSuffix
    targetDir,   \* main's targetDir
    targetPath,  \* main's targetPath
    outcome,     \* how the current invocation ended ("" while it runs)
    ran,         \* steps the current invocation has executed, in order
    ops,         \* file system calls of the current invocation: [op, path]
    ioFault,     \* a system call of the current invocation returned an I/O error
    fsAtStart,   \* the file system when the current invocation started
    history,     \* one record per finished invocation: its outcome and calls
    writes       \* number of os.Create calls that created or truncated a target

vars == <<fs, source, targetFlag, console, logFile, localTimeZone, pc, target,
          targetDir, targetPath, outcome, ran, ops, ioFault, fsAtStart,
          history, writes>>

\* Number of invocations of the program in one behaviour.
MaxRuns == 3

-----------------------------------------------------------------------------
(* Characters and strings *)

Digits == <<"0", "1", "2", "3", "4", "5", "6", "7", "8", "9">>
Upper == <<"A", "B", "C", "D", "E", "F", "G", "H", "I", "J", "K", "L", "M",
           "N", "O", "P", "Q", "R", "S", "T", "U", "V", "W", "X", "Y", "Z">>
Lower == <<"a", "b", "c", "d", "e", "f", "g", "h", "i", "j", "k", "l", "m",
           "n", "o", "p", "q", "r", "s", "t", "u", "v", "w", "x", "y", "z">>

IsDigit(c) == \E i \in 1..10 : Digits[i] = c
DigitVal(c) == (CHOOSE i \in 1..10 : Digits[i] = c) - 1
DigitChar(n) == Digits[n + 1]

\* The largest element of a non-empty set of integers.
MaxOf(S) == CHOOSE x \in S : \A y \in S : y <= x

HasPrefix(s, p) == Len(s) >= Len(p) /\ SubSeq(s, 1, Len(p)) = p
HasSuffix(s, p) == Len(s) >= Len(p) /\ SubSeq(s, Len(s) - Len(p) + 1, Len(s)) = p
Drop(s, n) == SubSeq(s, n + 1, Len(s))

\* strings.TrimSuffix: one trailing occurrence of suf is removed, if present.
TrimSuffix(s, suf) ==
    IF HasSuffix(s, suf) THEN SubSeq(s, 1, Len(s) - Len(suf)) ELSE s

\* strings.ToLower on the ASCII letters.
ToLowerChar(c) ==
    IF \E i \in 1..26 : Upper[i] = c
    THEN Lower[CHOOSE i \in 1..26 : Upper[i] = c]
    ELSE c
ToLower(s) == [i \in 1..Len(s) |-> ToLowerChar(s[i])]

\* Index of the last "/" of a path at or before i, 0 when there is none.
RECURSIVE LastSlashFrom(_, _)
LastSlashFrom(p, i) ==
    IF i = 0 \/ p[i] = "/" THEN i ELSE LastSlashFrom(p, i - 1)
LastSlash(p) == LastSlashFrom(p, Len(p))

\* filepath.Ext: the suffix from the last "." of the last path element.
Ext(p) ==
    LET dots == {i \in (LastSlash(p) + 1)..Len(p) : p[i] = "."}
    IN  IF dots = {} THEN <<>> ELSE SubSeq(p, MaxOf(dots), Len(p))

\* A path without its trailing slashes.
RECURSIVE StripSlashes(_)
StripSlashes(p) ==
    IF Len(p) > 0 /\ p[Len(p)] = "/" THEN StripSlashes(SubSeq(p, 1, Len(p) - 1))
    ELSE p

\* filepath.Base: the last element of the path.
Base(p) ==
    IF p = <<>> THEN <<".">>
    ELSE LET q == StripSlashes(p)
             r == Drop(q, LastSlash(q))
         IN  IF r = <<>> THEN <<"/">> ELSE r

\* The path the kernel resolves: repeated slashes collapse and trailing
\* slashes are dropped.
RECURSIVE Collapse(_)
Collapse(p) ==
    IF Len(p) < 2 THEN p
    ELSE IF p[1] = "/" /\ p[2] = "/" THEN Collapse(Tail(p))
    ELSE <<p[1]>> \o Collapse(Tail(p))
Resolve(p) ==
    IF \A i \in 1..Len(p) : p[i] = "/" => (i < Len(p) /\ p[i + 1] # "/")
    THEN p
    ELSE LET q == StripSlashes(Collapse(p))
         IN  IF q = <<>> THEN <<"/">> ELSE q

-----------------------------------------------------------------------------
(* time.Time: the day number counted from 0001-01-01 and the second of the  *)
(* day; a uint32 is kept as two 16-bit halves so that no intermediate value *)
(* leaves the checker's integers.                                           *)

IsLeap(year) == year % 4 = 0 /\ (year % 100 # 0 \/ year % 400 = 0)

DaysBefore == <<0, 31, 59, 90, 120, 151, 181, 212, 243, 273, 304, 334, 365>>

DaysIn(month, year) ==
    IF month = 2 /\ IsLeap(year) THEN 29
    ELSE DaysBefore[month + 1] - DaysBefore[month]

\* time.Date in UTC: days of the whole 400, 100, 4 and 1 year cycles before
\* the year, then the days before the month and the day of the month.
Date(year, month, day, hour, min, sec) ==
    LET y0 == year - 1
        n400 == y0 \div 400
        y1 == y0 - 400 * n400
        n100 == y1 \div 100
        y2 == y1 - 100 * n100
        n4 == y2 \div 4
        y3 == y2 - 4 * n4
        d == 146097 * n400 + 36524 * n100 + 1461 * n4 + 365 * y3
             + DaysBefore[month]
             + (IF IsLeap(year) /\ month >= 3 THEN 1 ELSE 0)
             + (day - 1)
    IN  [day |-> d, sec |-> hour * 3600 + min * 60 + sec]

\* Time.Add of a whole number of seconds given as days and seconds.
AddSeconds(t, days, secs) ==
    LET s == t.sec + secs
    IN  [day |-> t.day + days + s \div 86400, sec |-> s % 86400]

\* Time.In(loc) followed by the calendar fields Time.Format reads: the
\* year, month, day, hour, minute and second of t at offset seconds east.
Civil(t, offset) ==
    LET l == AddSeconds(t, 0, offset)
        n400 == l.day \div 146097
        d1 == l.day - 146097 * n400
        q100 == d1 \div 36524
        n100 == q100 - q100 \div 4
        d2 == d1 - 36524 * n100
        n4 == d2 \div 1461
        d3 == d2 - 1461 * n4
        q1 == d3 \div 365
        n1 == q1 - q1 \div 4
        yday == d3 - 365 * n1
        year == 1 + 400 * n400 + 100 * n100 + 4 * n4 + n1
        month == CHOOSE m \in 1..12 :
                    LET lo == DaysBefore[m]
                              + (IF IsLeap(year) /\ m >= 3 THEN 1 ELSE 0)
                        hi == DaysBefore[m + 1]
                              + (IF IsLeap(year) /\ m >= 2 THEN 1 ELSE 0)
                    IN  lo <= yday /\ yday < hi
        mday == yday - DaysBefore[month]
                - (IF IsLeap(year) /\ month >= 3 THEN 1 ELSE 0) + 1
    IN  [year |-> year, month |-> month, day |-> mday,
         hour |-> l.sec \div 3600, min |-> (l.sec % 3600) \div 60,
         sec |-> l.sec % 60]

\* n in decimal, zero-padded to width digits (n >= 0).
RECURSIVE Pad(_, _)
Pad(n, width) ==
    IF width = 0 THEN <<>> ELSE Pad(n \div 10, width - 1) \o <<DigitChar(n % 10)>>

\* Time.Format for the layout elements the program uses: 2006, 01, 02, 15,
\* 04 and 05 are replaced by the fields of c, every other character is
\* copied.
RECURSIVE Format(_, _)
Format(c, layout) ==
    IF layout = <<>> THEN <<>>
    ELSE IF HasPrefix(layout, <<"2", "0", "0", "6">>)
         THEN Pad(c.year, 4) \o Format(c, Drop(layout, 4))
    ELSE IF HasPrefix(layout, <<"0", "1">>)
         THEN Pad(c.month, 2) \o Format(c, Drop(layout, 2))
    ELSE IF HasPrefix(layout, <<"0", "2">>)
         THEN Pad(c.day, 2) \o Format(c, Drop(layout, 2))
    ELSE IF HasPrefix(layout, <<"1", "5">>)
         THEN Pad(c.hour, 2) \o Format(c, Drop(layout, 2))
    ELSE IF HasPrefix(layout, <<"0", "4">>)
         THEN Pad(c.min, 2) \o Format(c, Drop(layout, 2))
    ELSE IF HasPrefix(layout, <<"0", "5">>)
         THEN Pad(c.sec, 2) \o Format(c, Drop(layout, 2))
    ELSE <<layout[1]>> \o Format(c, Tail(layout))

\* The decimal number a string of digits denotes.
RECURSIVE Atoi(_)
Atoi(s) == IF s = <<>> THEN 0 ELSE 10 * Atoi(SubSeq(s, 1, Len(s) - 1)) + DigitVal(s[Len(s)])

AllDigits(s) == \A i \in 1..Len(s) : IsDigit(s[i])

\* time's getnum: one or two leading digits of s (exactly two when fixed).
\* n is the number of characters taken, 0 when s does not start as required.
GetNum(s, fixed) ==
    IF Len(s) >= 2 /\ IsDigit(s[1]) /\ IsDigit(s[2])
    THEN [n |-> 2, val |-> Atoi(SubSeq(s, 1, 2))]
    ELSE IF Len(s) >= 1 /\ IsDigit(s[1]) /\ ~fixed
    THEN [n |-> 1, val |-> DigitVal(s[1])]
    ELSE [n |-> 0, val |-> 0]

\* The digits of a fractional second that follow a seconds field: a "." or
\* "," and at least one digit are accepted although the layout has none.
RECURSIVE SkipDigits(_)
SkipDigits(s) == IF s # <<>> /\ IsDigit(s[1]) THEN SkipDigits(Tail(s)) ELSE s
SkipFraction(s) ==
    IF Len(s) >= 2 /\ s[1] \in {".", ","} /\ IsDigit(s[2])
    THEN SkipDigits(Tail(s)) ELSE s

\* The element-by-element scan of time.Parse: acc collects the fields read
\* so far, ok turns FALSE at the first mismatch or range error.
RECURSIVE ParseScan(_, _, _)
ParseScan(layout, value, acc) ==
    IF layout = <<>> THEN [acc EXCEPT !.ok = (value = <<>>)]
    ELSE IF HasPrefix(layout, <<"2", "0", "0", "6">>) THEN
        IF Len(value) >= 4 /\ AllDigits(SubSeq(value, 1, 4))
        THEN ParseScan(Drop(layout, 4), Drop(value, 4),
                       [acc EXCEPT !.year = Atoi(SubSeq(value, 1, 4))])
        ELSE [acc EXCEPT !.ok = FALSE]
    ELSE IF HasPrefix(layout, <<"0", "1">>) THEN
        LET g == GetNum(value, TRUE)
        IN  IF g.n = 0 \/ g.val <= 0 \/ 12 < g.val THEN [acc EXCEPT !.ok = FALSE]
            ELSE ParseScan(Drop(layout, 2), Drop(value, g.n),
                           [acc EXCEPT !.month = g.val])
    ELSE IF HasPrefix(layout, <<"0", "2">>) THEN
        LET g == GetNum(value, TRUE)
        IN  IF g.n = 0 THEN [acc EXCEPT !.ok = FALSE]
            ELSE ParseScan(Drop(layout, 2), Drop(value, g.n),
                           [acc EXCEPT !.day = g.val])
    ELSE IF HasPrefix(layout, <<"1", "5">>) THEN
        LET g == GetNum(value, FALSE)
        IN  IF g.n = 0 \/ 24 <= g.val THEN [acc EXCEPT !.ok = FALSE]
            ELSE ParseScan(Drop(layout, 2), Drop(value, g.n),
                           [acc EXCEPT !.hour = g.val])
    ELSE IF HasPrefix(layout, <<"0", "4">>) THEN
        LET g == GetNum(value, TRUE)
        IN  IF g.n = 0 \/ 60 <= g.val THEN [acc EXCEPT !.ok = FALSE]
            ELSE ParseScan(Drop(layout, 2), Drop(value, g.n),
                           [acc EXCEPT !.min = g.val])
    ELSE IF HasPrefix(layout, <<"0", "5">>) THEN
        LET g == GetNum(value, TRUE)
        IN  IF g.n = 0 \/ 60 <= g.val THEN [acc EXCEPT !.ok = FALSE]
            ELSE ParseScan(Drop(layout, 2), SkipFraction(Drop(value, g.n)),
                           [acc EXCEPT !.sec = g.val])
    ELSE IF value # <<>> /\ value[1] = layout[1]
         THEN ParseScan(Tail(layout), Tail(value), acc)
    ELSE [acc EXCEPT !.ok = FALSE]

\* time.Parse: the fields are read, the day of the month is validated
\* against the month and the year, and the time is built in UTC.
Parse(layout, value) ==
    LET f == ParseScan(layout, value,
                       [ok |-> TRUE, year |-> 0, month |-> 1, day |-> 1,
                        hour |-> 0, min |-> 0, sec |-> 0])
    IN  IF ~f.ok \/ f.day < 1 \/ f.day > DaysIn(f.month, f.year)
        THEN [ok |-> FALSE, time |-> [day |-> 0, sec |-> 0]]
        ELSE [ok |-> TRUE,
              time |-> Date(f.year, f.month, f.day, f.hour, f.min, f.sec)]

-----------------------------------------------------------------------------
(* The file system *)

Dir == [kind |-> "dir", content |-> <<>>]
File(content) == [kind |-> "file", content |-> content]

\* The operators below take resolved paths.
Exists(f, p) == p \in DOMAIN f
IsDir(f, p) == p \in DOMAIN f /\ f[p].kind = "dir"
IsFile(f, p) == p \in DOMAIN f /\ f[p].kind = "file"

\* The directory that holds the last element of p.
Parent(p) ==
    LET i == LastSlash(p)
    IN  IF i <= 1 THEN <<"/">> ELSE SubSeq(p, 1, i - 1)

\* f with path p bound to entry e.
Bind(f, p, e) == [q \in DOMAIN f \cup {p} |-> IF q = p THEN e ELSE f[q]]

\* os.Stat: "ok", "notexist" (os.ErrNotExist) or "error" (any other error:
\* the injected fault, or a parent that is not a directory).
Stat(f, p, fault) ==
    IF fault \/ IsFile(f, Parent(p)) THEN "error"
    ELSE IF Exists(f, Parent(p)) /\ Exists(f, p) THEN "ok"
    ELSE "notexist"

\* os.Mkdir: one level, no parents are made.
Mkdir(f, p, fault) ==
    IF fault \/ ~IsDir(f, Parent(p)) \/ Exists(f, p)
    THEN [err |-> TRUE, fs |-> f]
    ELSE [err |-> FALSE, fs |-> Bind(f, p, Dir)]

\* os.Create: the file is created, or truncated when it exists.
Create(f, p, fault) ==
    IF fault \/ ~IsDir(f, Parent(p)) \/ IsDir(f, p)
    THEN [err |-> TRUE, fs |-> f]
    ELSE [err |-> FALSE, fs |-> Bind(f, p, File(<<>>))]

\* os.OpenFile(p, O_WRONLY|O_CREATE|O_APPEND): the file is created when
\* absent and left as it is otherwise.
OpenAppend(f, p, fault) ==
    IF fault \/ ~IsDir(f, Parent(p)) \/ IsDir(f, p)
    THEN [err |-> TRUE, fs |-> f]
    ELSE [err |-> FALSE, fs |-> IF Exists(f, p) THEN f ELSE Bind(f, p, File(<<>>))]

\* A write through a descriptor opened with O_APPEND.
AppendTo(f, p, block) == [f EXCEPT ![p].content = Append(@, block)]

Op(name, p) == [op |-> name, path |-> p]

-----------------------------------------------------------------------------
(* The program's constants and helpers *)

fileDateStubFmt ==
    <<"/", "2", "0", "0", "6", "/", "0", "1", "-", "0", "2", "-", "1", "5",
      ":", "0", "4", ":", "0", "5", "-">>
targetDirFmt == <<"/", "2", "0", "0", "6">>
exifTimeLayout ==
    <<"2", "0", "0", "6", ":", "0", "1", ":", "0", "2", " ", "1", "5", ":",
      "0", "4", ":", "0", "5">>
tagIDDateTime == 306

\* The log line a zerolog event writes: to the log file, or to stderr (not
\* part of the file system) under -console.
Log(f, msg) == IF console THEN f ELSE AppendTo(f, Resolve(logFile), msg)

\* Ifd.FindTagWithId: the entries with the id, an error when there is none.
FindTagWithId(ifd, tagID) ==
    LET r == SelectSeq(ifd, LAMBDA e : e.id = tagID)
    IN  [err |-> r = <<>>, results |-> r]

\* EXIFgetIndex: the EXIF block of the file, an error when the file cannot
\* be read or holds none.  The index is the file's header block.
EXIFgetIndex(f, path) ==
    LET p == Resolve(path)
    IN  IF IsFile(f, p) /\ f[p].content # <<>> /\ f[p].content[1].hasExif
        THEN [err |-> FALSE, index |-> f[p].content[1]]
        ELSE [err |-> TRUE, index |-> <<>>]

NoValue == [id |-> 0, type |-> "none", text |-> <<>>]

\* EXIFgetValue without the check of the number of results: the first
\* result is taken.
EXIFgetValueFirst(index, tagID) ==
    LET r1 == FindTagWithId(index.root, tagID)
        r2 == IF ~r1.err THEN r1
              ELSE IF index.hasSub THEN FindTagWithId(index.sub, tagID)
              ELSE [err |-> TRUE, results |-> <<>>]
    IN  IF r2.err THEN [err |-> TRUE, value |-> NoValue]
        ELSE IF r2.results[1].type = "undefined"
             THEN [err |-> TRUE, value |-> NoValue]
        ELSE [err |-> FALSE, value |-> r2.results[1]]

\* EXIFgetValue: the tag is looked up in the root IFD, then in IFD/Exif;
\* exactly one result is required and its value is returned.
EXIFgetValue(index, tagID) ==
    LET r1 == FindTagWithId(index.root, tagID)
        r2 == IF ~r1.err THEN r1
              ELSE IF index.hasSub THEN FindTagWithId(index.sub, tagID)
              ELSE [err |-> TRUE, results |-> <<>>]
    IN  IF r2.err THEN [err |-> TRUE, value |-> NoValue]
        ELSE IF Len(r2.results) # 1 THEN [err |-> TRUE, value |-> NoValue]
        ELSE IF r2.results[1].type = "undefined"
             THEN [err |-> TRUE, value |-> NoValue]
        ELSE [err |-> FALSE, value |-> r2.results[1]]

\* MP4getMetadata: the moov/mvhd boxes of the file with their payloads.
MP4getMetadata(f, path) ==
    LET p == Resolve(path)
    IN  IF IsFile(f, p) /\ f[p].content # <<>> /\ ~f[p].content[1].mp4Err
        THEN [err |-> FALSE, metadata |-> f[p].content[1].boxes]
        ELSE [err |-> TRUE, metadata |-> <<>>]

\* The uint32 hi * 2^16 + lo as whole days and remaining seconds
\* (86400 = 128 * 675).
DaysOf(hi, lo) == (hi * 512 + lo \div 128) \div 675
SecondsOf(hi, lo) == ((hi * 512 + lo \div 128) % 675) * 128 + (lo % 128)

\* Mvhd1904 without the conversion to the local time zone.
Mvhd1904Utc(payload) ==
    Civil(AddSeconds(Date(1904, 1, 1, 0, 0, 0),
                     DaysOf(payload.hi, payload.lo),
                     SecondsOf(payload.hi, payload.lo)),
          0)

\* The .mp4 branch's when: 1904-01-01T00:00:00 UTC plus CreationTimeV0
\* seconds, read in the local time zone.  (CreationTimeV0 * 10^9 ns stays
\* below 2^63, so the time.Duration does not overflow.)
Mvhd1904(payload) ==
    Civil(AddSeconds(Date(1904, 1, 1, 0, 0, 0),
                     DaysOf(payload.hi, payload.lo),
                     SecondsOf(payload.hi, payload.lo)),
          localTimeZone)

\* ExifWhen with the parsed time converted to the local time zone.
ExifWhenLocal(t) == Civil(t, localTimeZone)

\* The .jpg branch's when: the parsed time, read as UTC.
ExifWhen(t) == Civil(t, 0)

TargetDirOf(root, when) == root \o Format(when, targetDirFmt)
TargetPathOf(root, when, src) == root \o Format(when, fileDateStubFmt) \o Base(src)

-----------------------------------------------------------------------------
(* checkTargetDir, copyFile and copySourceToTarget as functions of the file *)
(* system and of the faults the environment injects into their system calls *)

\* checkTargetDir without the IsDir test: whatever exists is accepted.
checkTargetDirAnyEntry(f, dir, fault) ==
    LET d == Resolve(dir)
        st == Stat(f, d, fault = "stat")
        mk == Mkdir(f, d, fault = "mkdir")
    IN  IF st = "ok" THEN
            [err |-> "", fs |-> f, ops |-> {Op("stat", d)}, fault |-> FALSE]
        ELSE IF st = "notexist" THEN
            [err |-> IF mk.err THEN "make target dir" ELSE "",
             fs |-> mk.fs, ops |-> {Op("stat", d), Op("mkdir", d)},
             fault |-> mk.err]
        ELSE [err |-> "stat target dir", fs |-> f, ops |-> {Op("stat", d)},
              fault |-> TRUE]

\* fault is "none", "stat" (os.Stat fails) or "mkdir" (os.Mkdir fails).
checkTargetDir(f, dir, fault) ==
    LET d == Resolve(dir)
        st == Stat(f, d, fault = "stat")
        mk == Mkdir(f, d, fault = "mkdir")
    IN  IF st = "ok" THEN
            [err |-> IF IsDir(f, d) THEN "" ELSE "target dir is not a directory",
             fs |-> f, ops |-> {Op("stat", d)}, fault |-> FALSE]
        ELSE IF st = "notexist" THEN
            [err |-> IF mk.err THEN "make target dir" ELSE "",
             fs |-> mk.fs, ops |-> {Op("stat", d), Op("mkdir", d)},
             fault |-> mk.err]
        ELSE [err |-> "stat target dir", fs |-> f, ops |-> {Op("stat", d)},
              fault |-> TRUE]

\* f without path p.
Remove(f, p) == [q \in DOMAIN f \ {p} |-> f[q]]

\* copyFile that removes the target when io.Copy fails.
copyFileCleanup(f, src, dst, fault, k) ==
    LET s == Resolve(src)
        t == Resolve(dst)
        cr == Create(f, t, fault = "create")
    IN  IF fault = "open" \/ ~IsFile(f, s) THEN
            [err |-> "open source file", fs |-> f, ops |-> {Op("open", s)},
             created |-> FALSE]
        ELSE IF cr.err THEN
            [err |-> "create target file", fs |-> f,
             ops |-> {Op("open", s), Op("create", t)}, created |-> FALSE]
        ELSE IF fault = "copy" THEN
            [err |-> "copy file", fs |-> Remove(cr.fs, t),
             ops |-> {Op("open", s), Op("create", t), Op("write", t)},
             created |-> TRUE]
        ELSE [err |-> "", fs |-> Bind(cr.fs, t, File(f[s].content)),
              ops |-> {Op("open", s), Op("create", t), Op("write", t)},
              created |-> TRUE]

\* copyFile that moves: the source is removed after a complete copy.
copyFileMove(f, src, dst, fault, k) ==
    LET s == Resolve(src)
        t == Resolve(dst)
        cr == Create(f, t, fault = "create")
    IN  IF fault = "open" \/ ~IsFile(f, s) THEN
            [err |-> "open source file", fs |-> f, ops |-> {Op("open", s)},
             created |-> FALSE]
        ELSE IF cr.err THEN
            [err |-> "create target file", fs |-> f,
             ops |-> {Op("open", s), Op("create", t)}, created |-> FALSE]
        ELSE IF fault = "copy" THEN
            [err |-> "copy file",
             fs |-> Bind(cr.fs, t, File(SubSeq(f[s].content, 1, k))),
             ops |-> {Op("open", s), Op("create", t), Op("write", t)},
             created |-> TRUE]
        ELSE [err |-> "", fs |-> Remove(Bind(cr.fs, t, File(f[s].content)), s),
              ops |-> {Op("open", s), Op("create", t), Op("write", t)},
              created |-> TRUE]

\* fault is "none", "open" (os.Open fails), "create" (os.Create fails) or
\* "copy" (io.Copy fails after k blocks reached the target).
copyFile(f, src, dst, fault, k) ==
    LET s == Resolve(src)
        t == Resolve(dst)
        cr == Create(f, t, fault = "create")
    IN  IF fault = "open" \/ ~IsFile(f, s) THEN
            [err |-> "open source file", fs |-> f, ops |-> {Op("open", s)},
             created |-> FALSE]
        ELSE IF cr.err THEN
            [err |-> "create target file", fs |-> f,
             ops |-> {Op("open", s), Op("create", t)}, created |-> FALSE]
        ELSE IF fault = "copy" THEN
            [err |-> "copy file",
             fs |-> Bind(cr.fs, t, File(SubSeq(f[s].content, 1, k))),
             ops |-> {Op("open", s), Op("create", t), Op("write", t)},
             created |-> TRUE]
        ELSE [err |-> "", fs |-> Bind(cr.fs, t, File(f[s].content)),
              ops |-> {Op("open", s), Op("create", t), Op("write", t)},
              created |-> TRUE]

\* equalfile's CompareFile: both files are opened and compared in full.  A
\* directory in place of the target is unequal or an error.
CompareFile(f, a, b, fault) ==
    LET s == Resolve(a)
        t == Resolve(b)
    IN  IF fault \/ ~IsFile(f, s) \/ ~Exists(f, t)
        THEN [err |-> TRUE, equal |-> FALSE]
        ELSE [err |-> FALSE,
              equal |-> IsFile(f, t) /\ f[s].content = f[t].content]

\* copySourceToTarget with the test of equality inverted.
copySourceToTargetInverted(f, src, dst, fault, k) ==
    LET s == Resolve(src)
        t == Resolve(dst)
        st == Stat(f, t, fault = "stat")
        cmp == CompareFile(f, src, dst, fault = "compare")
        cp == copyFile(f, src, dst, fault, k)
    IN  IF st = "ok" THEN
            [err |-> IF cmp.err THEN "compare files"
                     ELSE IF ~cmp.equal THEN ""
                     ELSE "pre-existing file not identical",
             msg |-> IF ~cmp.err /\ ~cmp.equal
                     THEN "Skipping pre-existing identical file" ELSE "",
             fs |-> f,
             ops |-> {Op("stat", t), Op("open", s), Op("open", t)},
             created |-> FALSE, fault |-> cmp.err]
        ELSE IF st = "notexist" THEN
            [err |-> IF cp.err # "" THEN "copy file" ELSE "",
             msg |-> IF cp.err = "" THEN "Copied file" ELSE "",
             fs |-> cp.fs, ops |-> {Op("stat", t)} \cup cp.ops,
             created |-> cp.created, fault |-> cp.err # ""]
        ELSE [err |-> "stat target file", msg |-> "", fs |-> f,
              ops |-> {Op("stat", t)}, created |-> FALSE, fault |-> TRUE]

\* copySourceToTarget that copies whether or not the target exists.
copySourceToTargetAlways(f, src, dst, fault, k) ==
    LET t == Resolve(dst)
        cp == copyFile(f, src, dst, fault, k)
    IN  [err |-> IF cp.err # "" THEN "copy file" ELSE "",
         msg |-> IF cp.err = "" THEN "Copied file" ELSE "",
         fs |-> cp.fs, ops |-> {Op("stat", t)} \cup cp.ops,
         created |-> cp.created, fault |-> cp.err # ""]

\* fault is "none", "stat" (os.Stat fails), "compare" (CompareFile fails)
\* or one of copyFile's faults.
copySourceToTarget(f, src, dst, fault, k) ==
    LET s == Resolve(src)
        t == Resolve(dst)
        st == Stat(f, t, fault = "stat")
        cmp == CompareFile(f, src, dst, fault = "compare")
        cp == copyFile(f, src, dst, fault, k)
    IN  IF st = "ok" THEN
            [err |-> IF cmp.err THEN "compare files"
                     ELSE IF cmp.equal THEN ""
                     ELSE "pre-existing file not identical",
             msg |-> IF ~cmp.err /\ cmp.equal
                     THEN "Skipping pre-existing identical file" ELSE "",
             fs |-> f,
             ops |-> {Op("stat", t), Op("open", s), Op("open", t)},
             created |-> FALSE, fault |-> cmp.err]
        ELSE IF st = "notexist" THEN
            [err |-> IF cp.err # "" THEN "copy file" ELSE "",
             msg |-> IF cp.err = "" THEN "Copied file" ELSE "",
             fs |-> cp.fs, ops |-> {Op("stat", t)} \cup cp.ops,
             created |-> cp.created, fault |-> cp.err # ""]
        ELSE [err |-> "stat target file", msg |-> "", fs |-> f,
              ops |-> {Op("stat", t)}, created |-> FALSE, fault |-> TRUE]

\* The faults the environment can inject into copySourceToTarget for a
\* source of n blocks: <<fault, k>>.
CopyFaults(n) ==
    ({"none", "stat", "compare", "open", "create"} \X {0})
    \cup ({"copy"} \X (0..(n - 1)))

-----------------------------------------------------------------------------
(* main *)

Running == [message |-> "", err |-> ""]

Step(name, ok) == [step |-> name, ok |-> ok]

\* The invocation ends in step: by errorFatal (os.Exit after the dialog and
\* the fatal log line), by an early return, or by main returning (ok).
Finish(step, ok, f, message, err, fault, newOps, created) ==
    /\ fs' = f
    /\ pc' = "exit"
    /\ ran' = Append(ran, Step(step, ok))
    /\ outcome' = [message |-> message, err |-> err]
    /\ ioFault' = (ioFault \/ fault)
    /\ ops' = ops \cup newOps
    /\ writes' = writes + (IF created THEN 1 ELSE 0)
    /\ history' = Append(history,
                         [message |-> message, err |-> err,
                          fault |-> (ioFault \/ fault), created |-> created,
                          path |-> targetPath, ops |-> ops \cup newOps])

\* errorFatal: the message is shown, logged at fatal level, and the process
\* exits without running main's deferred calls.
errorFatal(step, f, message, err, fault, newOps, created) ==
    Finish(step, FALSE, Log(f, "fatal"), message, err, fault, newOps, created)

\* Lines 64-77: both -source and -target are required.
ParseFlags ==
    /\ pc = "flags"
    /\ IF source = <<>> \/ targetFlag = <<>>
       THEN /\ Finish("flags", FALSE, fs,
                      "Missing command line flag -source or -target", "",
                      FALSE, {}, FALSE)
            /\ UNCHANGED <<target, targetDir, targetPath>>
       ELSE /\ pc' = "log"
            /\ ran' = Append(ran, Step("flags", TRUE))
            /\ UNCHANGED <<fs, target, targetDir, targetPath, outcome, ops,
                           ioFault, history, writes>>
    /\ UNCHANGED <<source, targetFlag, console, logFile, localTimeZone, fsAtStart>>

\* Lines 79-100: the log goes to the console or to the log file, which is
\* opened for appending (created when absent) and given an empty line; the
\* trailing "/" of the target is trimmed and the start is logged.
SetupLog ==
    /\ pc = "log"
    /\ \E fault \in BOOLEAN :
         LET lf == Resolve(logFile)
             o == OpenAppend(fs, lf, fault)
         IN  IF console THEN
                 /\ ~fault
                 /\ pc' = "extract"
                 /\ ran' = Append(ran, Step("log", TRUE))
                 /\ target' = TrimSuffix(targetFlag, <<"/">>)
                 /\ UNCHANGED <<fs, outcome, ops, ioFault, history, writes>>
             ELSE IF o.err THEN
                 /\ Finish("log", FALSE, fs, "Log File Creation", "open", TRUE,
                           {Op("open", lf)}, FALSE)
                 /\ UNCHANGED target
             ELSE
                 /\ fs' = AppendTo(AppendTo(o.fs, lf, ""), lf, "GardePro starting")
                 /\ ops' = ops \cup {Op("open", lf), Op("write", lf)}
                 /\ pc' = "extract"
                 /\ ran' = Append(ran, Step("log", TRUE))
                 /\ target' = TrimSuffix(targetFlag, <<"/">>)
                 /\ UNCHANGED <<outcome, ioFault, history, writes>>
    /\ UNCHANGED <<source, targetFlag, console, logFile, localTimeZone,
                   targetDir, targetPath, fsAtStart>>

\* Lines 159-163 follow every branch of the switch: an empty targetDir or
\* targetPath is fatal, otherwise main goes on to checkTargetDir.
Computed(dir, path, newOps) ==
    IF dir = <<>> THEN
        /\ errorFatal("extract", fs, "No target dir", "", FALSE, newOps, FALSE)
        /\ UNCHANGED <<targetDir, targetPath>>
    ELSE IF path = <<>> THEN
        /\ errorFatal("extract", fs, "No target path", "", FALSE, newOps, FALSE)
        /\ UNCHANGED <<targetDir, targetPath>>
    ELSE /\ targetDir' = dir
         /\ targetPath' = path
         /\ pc' = "checkTargetDir"
         /\ ran' = Append(ran, Step("extract", TRUE))
         /\ ops' = ops \cup newOps
         /\ UNCHANGED <<fs, outcome, ioFault, history, writes>>

\* An extraction step that failed: errorFatal leaves no target.
ExtractFatal(f, message, err, newOps) ==
    /\ errorFatal("extract", f, message, err, FALSE, newOps, FALSE)
    /\ UNCHANGED <<targetDir, targetPath>>

\* Lines 113-134: the .jpg and .jpeg branch.
ExtractJPEG ==
    /\ pc = "extract"
    /\ ToLower(Ext(source)) \in {<<".", "j", "p", "g">>, <<".", "j", "p", "e", "g">>}
    /\ LET ix == EXIFgetIndex(fs, source)
           v == EXIFgetValue(ix.index, tagIDDateTime)
           p == Parse(exifTimeLayout, v.value.text)
           rd == {Op("open", Resolve(source))}
       IN  IF ix.err THEN ExtractFatal(fs, "Get EXIF index", "getting EXIF", rd)
           ELSE IF v.err
                THEN ExtractFatal(Log(fs, "error"), "Get tag value", "EXIF tag", rd)
           ELSE IF v.value.type # "ascii"
                THEN ExtractFatal(fs, "Date/Time not string", "", rd)
           ELSE IF ~p.ok THEN ExtractFatal(fs, "Parse time", "parsing time", rd)
           ELSE Computed(TargetDirOf(target, ExifWhen(p.time)),
                         TargetPathOf(target, ExifWhen(p.time), source), rd)
    /\ UNCHANGED <<source, targetFlag, console, logFile, localTimeZone, target,
                   fsAtStart>>

\* Lines 135-154: the .mp4 branch.
ExtractMP4 ==
    /\ pc = "extract"
    /\ ToLower(Ext(source)) = <<".", "m", "p", "4">>
    /\ LET md == MP4getMetadata(fs, source)
           rd == {Op("open", Resolve(source))}
       IN  IF md.err THEN ExtractFatal(fs, "Get MP4 metadata", "mp4", rd)
           ELSE IF Len(md.metadata) # 1
                THEN ExtractFatal(fs, "Wrong number of metadata results", "", rd)
           ELSE IF md.metadata[1].type # "mvhd"
                THEN ExtractFatal(fs, "Convert metadata payload to mvhd", "", rd)
           ELSE Computed(TargetDirOf(target, Mvhd1904(md.metadata[1])),
                         TargetPathOf(target, Mvhd1904(md.metadata[1]), source), rd)
    /\ UNCHANGED <<source, targetFlag, console, logFile, localTimeZone, target,
                   fsAtStart>>

\* The switch without its default case: main goes on to line 159 with an
\* empty targetDir.
UnrecognizedExtensionNoDefault ==
    /\ pc = "extract"
    /\ ToLower(Ext(source)) \notin {<<".", "j", "p", "g">>, <<".", "j", "p", "e", "g">>,
                                     <<".", "m", "p", "4">>}
    /\ Computed(<<>>, <<>>, {})
    /\ UNCHANGED <<source, targetFlag, console, logFile, localTimeZone, target,
                   fsAtStart>>

\* Lines 155-156: any other extension.
UnrecognizedExtension ==
    /\ pc = "extract"
    /\ ToLower(Ext(source)) \notin {<<".", "j", "p", "g">>, <<".", "j", "p", "e", "g">>,
                                     <<".", "m", "p", "4">>}
    /\ ExtractFatal(fs, "Unrecognized extension", "", {})
    /\ UNCHANGED <<source, targetFlag, console, logFile, localTimeZone, target,
                   fsAtStart>>

\* Lines 168-170 with the error of checkTargetDir dropped.
CheckTargetDirIgnored ==
    /\ pc = "checkTargetDir"
    /\ \E fault \in {"none", "stat", "mkdir"} :
         LET r == checkTargetDir(fs, targetDir, fault)
         IN  /\ fs' = r.fs
             /\ ops' = ops \cup r.ops
             /\ pc' = "copySourceToTarget"
             /\ ran' = Append(ran, Step("checkTargetDir", r.err = ""))
             /\ UNCHANGED <<outcome, ioFault, history, writes>>
    /\ UNCHANGED <<source, targetFlag, console, logFile, localTimeZone, target,
                   targetDir, targetPath, fsAtStart>>

\* Lines 168-170.
CheckTargetDir ==
    /\ pc = "checkTargetDir"
    /\ \E fault \in {"none", "stat", "mkdir"} :
         LET r == checkTargetDir(fs, targetDir, fault)
         IN  IF r.err # ""
             THEN errorFatal("checkTargetDir", r.fs, "Check target dir", r.err,
                             r.fault, r.ops, FALSE)
             ELSE /\ fs' = r.fs
                  /\ ops' = ops \cup r.ops
                  /\ pc' = "copySourceToTarget"
                  /\ ran' = Append(ran, Step("checkTargetDir", TRUE))
                  /\ UNCHANGED <<outcome, ioFault, history, writes>>
    /\ UNCHANGED <<source, targetFlag, console, logFile, localTimeZone, target,
                   targetDir, targetPath, fsAtStart>>

\* Lines 171-174: after a successful copySourceToTarget main returns and its
\* deferred calls log the finish and close the log file.
CopySourceToTarget ==
    /\ pc = "copySourceToTarget"
    /\ \E c \in CopyFaults(Len(fs[Resolve(source)].content)) :
         LET r == copySourceToTarget(fs, source, targetPath, c[1], c[2])
         IN  IF r.err # ""
             THEN errorFatal("copySourceToTarget", r.fs,
                             "Copy source file to target directory",
                             r.err, r.fault, r.ops, r.created)
             ELSE Finish("copySourceToTarget", TRUE,
                         Log(Log(r.fs, r.msg), "GardePro finished"), r.msg, "",
                         FALSE, r.ops, r.created)
    /\ UNCHANGED <<source, targetFlag, console, logFile, localTimeZone, target,
                   targetDir, targetPath, fsAtStart>>

\* The program is started again with the same arguments.
Invoke ==
    /\ pc = "exit"
    /\ Len(history) < MaxRuns
    /\ pc' = "flags"
    /\ target' = <<>>
    /\ targetDir' = <<>>
    /\ targetPath' = <<>>
    /\ outcome' = Running
    /\ ran' = <<>>
    /\ ops' = {}
    /\ ioFault' = FALSE
    /\ fsAtStart' = fs
    /\ UNCHANGED <<fs, source, targetFlag, console, logFile, localTimeZone,
                   history, writes>>

Next ==
    \/ ParseFlags
    \/ SetupLog
    \/ ExtractJPEG
    \/ ExtractMP4
    \/ UnrecognizedExtension
    \/ CheckTargetDir
    \/ CopySourceToTarget
    \/ Invoke

-----------------------------------------------------------------------------
(* Inputs: media files, command lines and file systems *)

Body == <<"b1", "b2">>

DateTimeTag(text) == [id |-> tagIDDateTime, type |-> "ascii", text |-> text]
ModelTag == [id |-> 272, type |-> "ascii", text |-> <<"G">>]

Header(hasExif, root, hasSub, sub, mp4Err, boxes) ==
    [hasExif |-> hasExif, root |-> root, hasSub |-> hasSub, sub |-> sub,
     mp4Err |-> mp4Err, boxes |-> boxes]
Jpeg(root, hasSub, sub) == Header(TRUE, root, hasSub, sub, TRUE, <<>>)
Mp4(boxes) == Header(FALSE, <<>>, FALSE, <<>>, FALSE, boxes)
Mvhd(hi, lo) == [type |-> "mvhd", hi |-> hi, lo |-> lo]

ExampleTime == <<"2", "0", "2", "3", ":", "0", "6", ":", "1", "5", " ", "1", "4", ":", "3", "0", ":", "0", "5">>
OtherTime == <<"2", "0", "2", "4", ":", "0", "2", ":", "2", "9", " ", "2", "3", ":", "5", "9", ":", "5", "9">>
BadDay == <<"2", "0", "2", "3", ":", "0", "2", ":", "3", "0", " ", "1", "0", ":", "0", "0", ":", "0", "0">>

\* 3786912345 = 57783 * 2^16 + 45657: 2024-01-01T00:05:45 UTC.
ExampleMvhd == Mvhd(57783, 45657)

JpegHeaders ==
    { Jpeg(<<ModelTag, DateTimeTag(ExampleTime)>>, FALSE, <<>>),
      Jpeg(<<ModelTag>>, TRUE, <<DateTimeTag(OtherTime)>>),
      Header(FALSE, <<>>, FALSE, <<>>, TRUE, <<>>),
      Jpeg(<<ModelTag>>, FALSE, <<>>),
      Jpeg(<<ModelTag>>, TRUE, <<ModelTag>>),
      Jpeg(<<DateTimeTag(ExampleTime), DateTimeTag(OtherTime)>>, FALSE, <<>>),
      Jpeg(<<[id |-> tagIDDateTime, type |-> "short", text |-> <<>>]>>, FALSE, <<>>),
      Jpeg(<<[id |-> tagIDDateTime, type |-> "undefined", text |-> <<>>]>>, FALSE, <<>>),
      Jpeg(<<DateTimeTag(BadDay)>>, FALSE, <<>>) }

Mp4Headers ==
    { Mp4(<<ExampleMvhd>>),
      Mp4(<<>>),
      Mp4(<<ExampleMvhd, Mvhd(0, 0)>>),
      Header(FALSE, <<>>, FALSE, <<>>, TRUE, <<>>),
      Mp4(<<[type |-> "other", hi |-> 0, lo |-> 0]>>) }

SrcJpg == <<"/", "c", "/", "I", ".", "J", "P", "G">>
SrcJpeg == <<"/", "c", "/", "i", ".", "x", ".", "j", "p", "e", "g">>
SrcMp4 == <<"/", "c", "/", "V", ".", "M", "P", "4">>
SrcPng == <<"/", "c", "/", "p", ".", "p", "n", "g">>
SrcGone == <<"/", "c", "/", "g", "o", "n", "e", ".", "j", "p", "g">>

\* A command line's -source with the header of the file it names; the file
\* at SrcGone does not exist and the empty -source is a missing flag.
SourceCases ==
    ({SrcJpg} \X JpegHeaders)
    \cup ({SrcMp4} \X Mp4Headers)
    \cup {<<SrcJpeg, Jpeg(<<DateTimeTag(ExampleTime)>>, FALSE, <<>>)>>,
          <<SrcPng, Jpeg(<<DateTimeTag(ExampleTime)>>, FALSE, <<>>)>>,
          <<SrcGone, Mp4(<<>>)>>,
          <<(<<>>), Mp4(<<>>)>>}

Root == <<"/", "a">>
Year2023 == <<"/", "a", "/", "2", "0", "2", "3">>
ExampleTarget == <<"/", "a", "/", "2", "0", "2", "3", "/", "0", "6", "-", "1", "5", "-", "1", "4", ":", "3", "0", ":", "0", "5", "-", "I", ".", "J", "P", "G">>
LogOk == <<"/", "t", "m", "p", "/", "g", ".", "l", "o", "g">>
LogNoDir == <<"/", "n", "o", "l", "o", "g", "/", "g", ".", "l", "o", "g">>

Targets == {Root, Root \o <<"/">>, <<>>}

\* Seconds east of UTC of the local time zone.
Zones == {-28800, 0, 19800}

\* The log goes to the console, to a file that can be opened, or to a file
\* in a directory that does not exist.
LogCases == {<<TRUE, LogOk>>, <<FALSE, LogOk>>, <<FALSE, LogNoDir>>}

BaseFs(src, content) ==
    LET f0 == [p \in {<<"/">>, <<"/", "c">>, <<"/", "t", "m", "p">>} |-> Dir]
    IN  IF src \in {SrcGone, <<>>} THEN f0 ELSE Bind(f0, src, File(content))

\* What the target tree holds before the first invocation: the root, the
\* year directory and the example's target may each be absent or present,
\* as a directory or as a file.
TargetTrees(content) ==
    LET root == Bind([p \in {} |-> Dir], Root, Dir)
        year == Bind(root, Year2023, Dir)
    IN  { [p \in {} |-> Dir],
          Bind([p \in {} |-> Dir], Root, File(<<>>)),
          root,
          Bind(root, Year2023, File(<<>>)),
          year,
          Bind(year, ExampleTarget, File(content)),
          Bind(year, ExampleTarget, File(<<content[1], "b1", "zz">>)),
          Bind(year, ExampleTarget, File(<<content[1]>>)),
          Bind(year, ExampleTarget, Dir) }

Overlay(f, g) == [p \in DOMAIN f \cup DOMAIN g |-> IF p \in DOMAIN g THEN g[p] ELSE f[p]]

Start(f, src, tgt, con, lg, zone) ==
    /\ fs = f
    /\ source = src
    /\ targetFlag = tgt
    /\ console = con
    /\ logFile = lg
    /\ localTimeZone = zone
    /\ pc = "flags"
    /\ target = <<>>
    /\ targetDir = <<>>
    /\ targetPath = <<>>
    /\ outcome = Running
    /\ ran = <<>>
    /\ ops = {}
    /\ ioFault = FALSE
    /\ fsAtStart = f
    /\ history = <<>>
    /\ writes = 0

\* The time zone is read by the .mp4 branch only.
ZonesOf(src) == IF src = SrcMp4 THEN Zones ELSE {0}

Init ==
    \E sc \in SourceCases, tgt \in Targets, lc \in LogCases :
      \E zone \in ZonesOf(sc[1]), tree \in TargetTrees(<<sc[2]>> \o Body) :
        Start(Overlay(BaseFs(sc[1], <<sc[2]>> \o Body), tree),
              sc[1], tgt, lc[1], lc[2], zone)

Spec == Init /\ [][Next]_vars

-----------------------------------------------------------------------------
(* A second set of inputs, for the naming rule: many Date Time strings,     *)
(* mvhd creation times, time zones and target roots over a file system      *)
(* that holds the roots only.                                               *)

Years == {<<"0", "0", "0", "0">>, <<"1", "9", "0", "4">>, <<"2", "0", "2", "3">>, <<"2", "0", "2", "4">>, <<"9", "9", "9", "9">>}
Months == {<<"0", "1">>, <<"0", "2">>, <<"1", "2">>, <<"1", "3">>}
Days == {<<"0", "0">>, <<"0", "1">>, <<"2", "9">>, <<"3", "0">>, <<"3", "1">>}
Clocks == {<<"0", "0", ":", "0", "0", ":", "0", "0">>, <<"1", "4", ":", "3", "0", ":", "0", "5">>, <<"2", "3", ":", "5", "9", ":", "5", "9">>, <<"2", "4", ":", "0", "0", ":", "0", "0">>, <<"7", ":", "3", "0", ":", "0", "5">>}

TimeString(y, m, d, c) == y \o <<":">> \o m \o <<":">> \o d \o <<" ">> \o c

\* Every date at one time of day, every time of day on two dates, and a
\* string with a fractional second.
TimeStrings ==
    {TimeString(y, m, d, <<"1", "4", ":", "3", "0", ":", "0", "5">>) :
        y \in Years, m \in Months, d \in Days}
    \cup {TimeString(y, <<"1", "2">>, <<"3", "1">>, c) :
            y \in {<<"0", "0", "0", "0">>, <<"9", "9", "9", "9">>}, c \in Clocks}
    \cup {ExampleTime \o <<".", "5">>}

\* CreationTimeV0 values as 16-bit halves: 0, 1904-12-31T20:00:00,
\* 1999-12-31T23:59:59, 2000-03-01T00:00:00, 2023-12-31T23:59:59, the
\* example, 2024-02-29T12:00:00, 2038-01-19T03:14:08 and 2^32 - 1.
MvhdTimes ==
    { Mvhd(0, 0), Mvhd(482, 19648), Mvhd(46226, 62463), Mvhd(46306, 3584),
      Mvhd(57783, 45311), ExampleMvhd, Mvhd(57862, 8768), Mvhd(64549, 45184),
      Mvhd(65535, 65535) }

PathZones == {-43200, -28800, 0, 19800, 50400}

SrcImg001 == <<"/", "c", "/", "I", "M", "G", "_", "0", "0", "1", ".", "J", "P", "G">>
Archive == <<"/", "a", "r", "c", "h", "i", "v", "e">>
ExampleArchived == <<"/", "a", "r", "c", "h", "i", "v", "e", "/", "2", "0", "2", "3", "/", "0", "6", "-", "1", "5", "-", "1", "4", ":", "3", "0", ":", "0", "5", "-", "I", "M", "G", "_", "0", "0", "1", ".", "J", "P", "G">>

PathTargets == {Root, Root \o <<"/">>, Root \o <<"/", "/">>, <<"/">>, Archive}

PathFs(src, content) ==
    Bind(Bind(BaseFs(src, content), Root, Dir), Archive, Dir)

PathCases ==
    { <<SrcJpg, Jpeg(<<DateTimeTag(t)>>, FALSE, <<>>), Root, z>> :
        t \in TimeStrings, z \in {-28800, 19800} }
    \cup { <<src, Jpeg(<<ModelTag>>, TRUE, <<DateTimeTag(ExampleTime)>>), tgt, 0>> :
             src \in {SrcJpg, SrcJpeg, SrcImg001}, tgt \in PathTargets }
    \cup { <<SrcMp4, Mp4(<<m>>), tgt, z>> :
             m \in MvhdTimes, tgt \in {Root, <<"/">>}, z \in PathZones }
    \cup { <<SrcPng, Mp4(<<ExampleMvhd>>), Root, 0>>,
           <<SrcJpg, Jpeg(<<DateTimeTag(ExampleTime)>>, FALSE, <<>>), <<>>, 0>> }

InitPath ==
    \E c \in PathCases, lc \in {<<TRUE, LogOk>>, <<FALSE, LogNoDir>>} :
        Start(PathFs(c[1], <<c[2]>> \o Body), c[1], c[3], lc[1], lc[2], c[4])

SpecPath == InitPath /\ [][Next]_vars

-----------------------------------------------------------------------------
(* Properties.  The outcomes of the specification are read off the         *)
(* program's messages.  A system call that fails for a reason the program   *)
(* does not handle (anything but os.Stat's "not exist") is an I/O error:    *)
(* ioFault records it, and the program ends with the corresponding          *)
(* CompareFailed, CopyFailed or CreateFailed instead of a placement         *)
(* outcome.                                                                 *)

Created(o) == o.message = "Copied file"
SkippedIdentical(o) == o.message = "Skipping pre-existing identical file"
RejectedConflict(o) ==
    /\ o.message = "Copy source file to target directory"
    /\ o.err = "pre-existing file not identical"
UnsupportedKind(o) == o.message = "Unrecognized extension"
ExtractionFailure(o) ==
    o.message \in {"Get EXIF index", "Get tag value", "Date/Time not string",
                   "Parse time", "Get MP4 metadata",
                   "Wrong number of metadata results",
                   "Convert metadata payload to mvhd"}

\* The elements of a path, in order.
RECURSIVE Elements(_)
Elements(p) ==
    IF p = <<>> THEN <<>>
    ELSE IF p[1] = "/" THEN Elements(Tail(p))
    ELSE LET rest == {i \in 1..Len(p) : p[i] = "/"}
             n == IF rest = {} THEN Len(p)
                  ELSE (CHOOSE i \in rest : \A j \in rest : i <= j) - 1
         IN  <<SubSeq(p, 1, n)>> \o Elements(Drop(p, n))


\* The -target flag without its one trailing "/", and the last element of
\* the -source flag.
GivenRoot ==
    IF targetFlag # <<>> /\ targetFlag[Len(targetFlag)] = "/"
    THEN SubSeq(targetFlag, 1, Len(targetFlag) - 1) ELSE targetFlag
GivenBase ==
    LET slashes == {i \in 1..Len(source) : source[i] = "/"}
    IN  IF slashes = {} THEN source ELSE Drop(source, MaxOf(slashes))

\* The text of the source's only Date Time tag.
GivenDateTime ==
    LET h == fs[source].content[1]
        tags == SelectSeq(h.root \o h.sub, LAMBDA e : e.id = tagIDDateTime)
    IN  tags[1].text

\* "/YYYY/MM-DD-HH:MM:SS-": digits and separators in their places.
IsDateStub(s) ==
    /\ Len(s) = 21
    /\ \A i \in {1, 6} : s[i] = "/"
    /\ \A i \in {9, 12, 21} : s[i] = "-"
    /\ \A i \in {15, 18} : s[i] = ":"
    /\ \A i \in {2, 3, 4, 5, 7, 8, 10, 11, 13, 14, 16, 17, 19, 20} : IsDigit(s[i])

\* The part of targetPath after the root: the date stub and the file name.
StubOf(path) == SubSeq(path, Len(GivenRoot) + 1, Len(GivenRoot) + 21)
NameOf(path) == Drop(path, Len(GivenRoot) + 21)

\* C5: once main has computed the target, targetPath is
\* <root>/<YYYY>/<MM>-<DD>-<HH>:<MM>:<SS>-<basename> with zero-padded
\* two-digit fields and the source's basename unchanged, targetDir is
\* <root>/<YYYY>, the elements of targetPath are those of the -target flag
\* followed by the year and the file name, for a .jpg source whose Date Time
\* is written YYYY:MM:DD HH:MM:SS the digits are those of the tag, and every
\* invocation on the same arguments computes the same path.
DestinationNaming ==
    /\ targetPath # <<>> =>
         LET stub == StubOf(targetPath)
             name == NameOf(targetPath)
         IN  /\ targetPath = GivenRoot \o stub \o name
             /\ IsDateStub(stub)
             /\ name = GivenBase
             /\ targetDir = GivenRoot \o SubSeq(stub, 1, 5)
             /\ Elements(targetPath)
                  = Elements(targetFlag)
                    \o <<SubSeq(stub, 2, 5), SubSeq(stub, 7, 21) \o GivenBase>>
             /\ (source # SrcMp4 /\ Len(GivenDateTime) = 19) =>
                  /\ SubSeq(stub, 2, 5) = SubSeq(GivenDateTime, 1, 4)
                  /\ SubSeq(stub, 7, 8) = SubSeq(GivenDateTime, 6, 7)
                  /\ SubSeq(stub, 10, 11) = SubSeq(GivenDateTime, 9, 10)
                  /\ SubSeq(stub, 13, 20) = SubSeq(GivenDateTime, 12, 19)
    /\ \A i, j \in 1..Len(history) :
         (history[i].path # <<>> /\ history[j].path # <<>>)
            => history[i].path = history[j].path

\* C5's case: the example of the specification has been placed.
DestinationNamingWitness ==
    /\ pc = "exit"
    /\ Created(outcome)
    /\ targetFlag = Archive
    /\ GivenDateTime = ExampleTime
    /\ targetPath = ExampleArchived

ClaimMonthDays == <<31, 28, 31, 30, 31, 30, 31, 31, 30, 31, 30, 31>>
ClaimLeap(y) == y % 4 = 0 /\ (y % 100 # 0 \/ y % 400 = 0)
RECURSIVE ClaimDaysBeforeMonth(_, _)
ClaimDaysBeforeMonth(y, m) ==
    IF m = 1 THEN 0
    ELSE ClaimDaysBeforeMonth(y, m - 1) + ClaimMonthDays[m - 1]
         + (IF m - 1 = 2 /\ ClaimLeap(y) THEN 1 ELSE 0)

\* Days from 1904-01-01 to the date, counted year by year.
ClaimDaysSince1904(y, m, d) ==
    365 * (y - 1904)
    + Cardinality({x \in 1904..(y - 1) : ClaimLeap(x)})
    - Cardinality({x \in y..1903 : ClaimLeap(x)})
    + ClaimDaysBeforeMonth(y, m) + (d - 1)

\* C8: for an .mp4 source with one mvhd record, the calendar fields written
\* into targetPath, read as a local time localTimeZone seconds east of UTC,
\* denote the instant 1904-01-01T00:00:00 UTC + CreationTimeV0 seconds, and
\* targetDir carries the year of that local date.  (The instant is compared
\* in 16-bit halves: 86400 = 65536 + 20864.)
VideoLocalTime ==
    (source = SrcMp4 /\ targetPath # <<>>) =>
        LET stub == StubOf(targetPath)
            m == fs[source].content[1].boxes[1]
            year == Atoi(SubSeq(stub, 2, 5))
            month == Atoi(SubSeq(stub, 7, 8))
            day == Atoi(SubSeq(stub, 10, 11))
            secs == Atoi(SubSeq(stub, 13, 14)) * 3600
                    + Atoi(SubSeq(stub, 16, 17)) * 60
                    + Atoi(SubSeq(stub, 19, 20))
            days == ClaimDaysSince1904(year, month, day)
            low == days * 20864 + secs - localTimeZone
        IN  /\ IsDateStub(stub)
            /\ month \in 1..12
            /\ day \in 1..(ClaimMonthDays[month]
                           + (IF month = 2 /\ ClaimLeap(year) THEN 1 ELSE 0))
            /\ secs < 86400
            /\ days + low \div 65536 = m.hi
            /\ low % 65536 = m.lo
            /\ targetDir = GivenRoot \o <<"/">> \o SubSeq(stub, 2, 5)

\* C8's case: the example offset is 2024-01-01T00:05:45 UTC, and eight hours
\* west of UTC the file is placed under 2023.
VideoLocalTimeWitness ==
    /\ pc = "exit"
    /\ Created(outcome)
    /\ source = SrcMp4
    /\ fs[source].content[1].boxes = <<ExampleMvhd>>
    /\ localTimeZone = -28800
    /\ targetPath = Root \o <<"/", "2", "0", "2", "3", "/", "1", "2", "-", "3", "1", "-", "1", "6", ":", "0", "5", ":", "4", "5", "-", "V", ".", "M", "P", "4">>

\* The file system apart from the log file is as the invocation found it.
OnlyLogChanged ==
    LET lf == Resolve(logFile)
    IN  /\ DOMAIN fs \ {lf} = DOMAIN fsAtStart \ {lf}
        /\ \A p \in DOMAIN fs \ {lf} : fs[p] = fsAtStart[p]

\* C1: when copySourceToTarget is invoked and the target exists with a
\* content other than the source's, the step ends the invocation, the
\* target keeps its content, nothing is created or written at the target,
\* and (the comparison not failing with an I/O error) the error is
\* "pre-existing file not identical".
ConflictSafety ==
    [][(/\ pc = "copySourceToTarget"
        /\ IsFile(fs, Resolve(source))
        /\ IsFile(fs, Resolve(targetPath))
        /\ fs[Resolve(targetPath)].content # fs[Resolve(source)].content)
       => /\ pc' = "exit"
          /\ Resolve(targetPath) \in DOMAIN fs'
          /\ fs'[Resolve(targetPath)] = fs[Resolve(targetPath)]
          /\ writes' = writes
          /\ \A o \in ops' : o.path = Resolve(targetPath) => o.op \in {"stat", "open"}
          /\ outcome'.message = "Copy source file to target directory"
          /\ ~ioFault' => RejectedConflict(outcome')]_vars

\* C1's case: an invocation met a different file at its target and was
\* rejected.
ConflictSafetyWitness ==
    /\ pc = "exit"
    /\ RejectedConflict(outcome)
    /\ IsFile(fsAtStart, Resolve(targetPath))
    /\ fsAtStart[Resolve(targetPath)].content = <<fs[source].content[1], "b1", "zz">>
    /\ fs[Resolve(targetPath)] = fsAtStart[Resolve(targetPath)]

\* C2: an invocation that finds no target and reaches the copy without an
\* I/O error ends Created; once an invocation has ended Created the target
\* holds the source's content, it has been written once, and no later
\* invocation on the same arguments writes it: each ends SkippedIdentical
\* (unless an I/O error ends it first).
Idempotence ==
    /\ (/\ pc = "exit"
        /\ Len(ran) = 5
        /\ ~Exists(fsAtStart, Resolve(targetPath))
        /\ ~ioFault) => Created(outcome)
    /\ \A i \in 1..Len(history) :
         Created(history[i]) =>
           /\ writes = 1
           /\ IsFile(fs, Resolve(history[i].path))
           /\ fs[Resolve(history[i].path)].content = fs[Resolve(source)].content
           /\ \A j \in (i + 1)..Len(history) :
                /\ ~history[j].created
                /\ ~history[j].fault =>
                     /\ SkippedIdentical(history[j])
                     /\ history[j].path = history[i].path

\* C2's case: starting with no target, three invocations in a row.
IdempotenceWitness ==
    /\ Len(history) = 3
    /\ Created(history[1])
    /\ SkippedIdentical(history[2])
    /\ SkippedIdentical(history[3])
    /\ writes = 1

SupportedExtensions ==
    {<<".", "j", "p", "g">>, <<".", "j", "p", "e", "g">>, <<".", "m", "p", "4">>}

\* C3 as stated: an invocation that ends with "Unrecognized extension" has
\* made no file system call and changed nothing.
UnsupportedBeforeAnyFileSystemCall ==
    (pc = "exit" /\ UnsupportedKind(outcome)) => (ops = {} /\ fs = fsAtStart)

\* C3, amended: an invocation that reaches the switch with an extension
\* other than .jpg, .jpeg and .mp4 (in any case) ends with "Unrecognized
\* extension"; the only file it has opened, created or written is the log
\* file, and under -console it has made no file system call at all.
UnsupportedTouchesOnlyLog ==
    (Len(ran) >= 3 /\ ToLower(Ext(source)) \notin SupportedExtensions) =>
        /\ pc = "exit"
        /\ Len(ran) = 3
        /\ UnsupportedKind(outcome)
        /\ \A o \in ops : o.path = Resolve(logFile)
        /\ OnlyLogChanged
        /\ console => (ops = {} /\ fs = fsAtStart)

\* C3's case: a .png source was refused after the log file was written.
UnsupportedTouchesOnlyLogWitness ==
    /\ pc = "exit"
    /\ source = SrcPng
    /\ UnsupportedKind(outcome)
    /\ ~console
    /\ Op("write", Resolve(logFile)) \in ops

\* The metadata of the source does not give one creation time: the file or
\* its EXIF block is missing, the Date Time tag is in neither IFD, is there
\* more than once, is no string or no valid YYYY:MM:DD HH:MM:SS; or the
\* moov/mvhd lookup fails or gives other than one record.
BadMetadata ==
    LET s == Resolve(source)
        h == fs[s].content[1]
        inRoot == SelectSeq(h.root, LAMBDA e : e.id = tagIDDateTime)
        inSub == SelectSeq(h.sub, LAMBDA e : e.id = tagIDDateTime)
        found == IF inRoot # <<>> THEN inRoot
                 ELSE IF h.hasSub THEN inSub ELSE <<>>
    IN  /\ ToLower(Ext(source)) \in SupportedExtensions
        /\ \/ s \notin DOMAIN fs
           \/ /\ source # SrcMp4
              /\ \/ ~h.hasExif
                 \/ Len(found) # 1
                 \/ found[1].type # "ascii"
                 \/ found[1].text \notin {ExampleTime, OtherTime}
           \/ /\ source = SrcMp4
              /\ (h.mp4Err \/ Len(h.boxes) # 1)

\* C4: an invocation that reaches the switch with such a source ends there
\* with an extraction failure: checkTargetDir and copySourceToTarget do not
\* run, no os.Stat, os.Mkdir or os.Create is made, and the file system
\* apart from the log file is unchanged.
ExtractionFailureStops ==
    (Len(ran) >= 3 /\ BadMetadata) =>
        /\ pc = "exit"
        /\ Len(ran) = 3
        /\ ExtractionFailure(outcome)
        /\ targetDir = <<>> /\ targetPath = <<>>
        /\ \A o \in ops : /\ o.op \in {"open", "write"}
                          /\ o.path \in {Resolve(logFile), Resolve(source)}
        /\ OnlyLogChanged

\* C4's case: the Date Time tag is missing, the target root exists and the
\* year directory does not.
ExtractionFailureStopsWitness ==
    /\ pc = "exit"
    /\ outcome.message = "Get tag value"
    /\ IsDir(fs, Root)
    /\ ~Exists(fs, Year2023)

StepOrderOfMain ==
    <<"flags", "log", "extract", "checkTargetDir", "copySourceToTarget">>

\* C6: the steps of an invocation run in the fixed order, each at most once
\* and only after every earlier step has succeeded, a step that fails ends
\* the invocation, and the copy is reached only with a computed target and
\* an existing year directory.
LinearSteps ==
    /\ Len(ran) <= 5
    /\ \A i \in 1..Len(ran) : ran[i].step = StepOrderOfMain[i]
    /\ \A i \in 1..(Len(ran) - 1) : ran[i].ok
    /\ (ran # <<>> /\ ~ran[Len(ran)].ok) => (pc = "exit" /\ outcome # Running)
    /\ (pc = "exit") <=> (outcome # Running)
    /\ Len(ran) >= 3 /\ ran[3].ok => (targetDir # <<>> /\ targetPath # <<>>)
    /\ (pc = "copySourceToTarget" \/ Len(ran) = 5) =>
          /\ ran[3].ok /\ ran[4].ok
          /\ IsDir(fs, Resolve(targetDir))
    /\ outcome.message = "Check target dir" =>
          (Len(ran) = 4 /\ ~ran[4].ok /\ ~Op("stat", Resolve(targetPath)) \in ops)

\* C6's case: checkTargetDir failed on a file in the place of the year
\* directory and the invocation ended without the copy.
LinearStepsWitness ==
    /\ pc = "exit"
    /\ outcome = [message |-> "Check target dir",
                  err |-> "target dir is not a directory"]
    /\ Len(ran) = 4
    /\ IsFile(fs, Year2023)

ProperPrefix(s, t) == Len(s) < Len(t) /\ s = SubSeq(t, 1, Len(s))

\* C9: after an invocation whose copy failed once the target was created,
\* the target stays as the failed copy left it, a proper prefix of the
\* source, in its year directory; no later invocation on the same source
\* creates, completes or replaces it: each ends with "pre-existing file not
\* identical" (unless an I/O error ends it first).
PartialCopyIsKept ==
    \A i \in 1..Len(history) :
        (history[i].created /\ history[i].err = "copy file") =>
            LET t == Resolve(history[i].path)
            IN  /\ IsFile(fs, t)
                /\ ProperPrefix(fs[t].content, fs[Resolve(source)].content)
                /\ IsDir(fs, Parent(t))
                /\ writes = 1
                /\ \A j \in (i + 1)..Len(history) :
                     /\ ~history[j].created
                     /\ ~Created(history[j]) /\ ~SkippedIdentical(history[j])
                     /\ ~history[j].fault => RejectedConflict(history[j])

\* C9's case: the first invocation made the year directory and failed in
\* io.Copy, the second was rejected.
PartialCopyIsKeptWitness ==
    /\ Len(history) >= 2
    /\ history[1].created /\ history[1].err = "copy file"
    /\ RejectedConflict(history[2])
    /\ Op("mkdir", Parent(Resolve(history[1].path))) \in history[1].ops
    /\ fs[Resolve(history[1].path)].content = <<fs[source].content[1]>>

====
